---- MODULE Spec2Model ----
(***************************************************************************)
(* Certificate signal handlers of lms/djangoapps/certificates/signals.py   *)
(* and the certificate date / messaging API exercised by                   *)
(* openedx/core/djangoapps/certificates/tests/test_api.py.                 *)
(***************************************************************************)
EXTENDS Integers, Sequences, FiniteSets, TLC

\* ---------------------------------------------------------------- bounds
MaxPercent == 1
MaxDate == 2

\* ------------------------------------------------- the learners and runs
Users == {"learner"}
Courses == {"course-v1:instructor", "course-v1:self"}
NoOne == "None"
Pairs == Users \X Courses
Percents == 0..MaxPercent
Dates == 0..MaxDate
NoDate == -1

\* ------------------------------------------------- certificate statuses
ALL_STATUSES ==
    {"deleted", "deleting", "downloadable", "error", "generating", "notpassing",
     "restricted", "unavailable", "auditing", "audit_passing", "audit_notpassing",
     "unverified", "invalidated", "requesting"}

PASSED_STATUSES == {"downloadable", "generating"}

is_passing_status(status) == status \in PASSED_STATUSES

\* ------------------------------------------------------ enrollment modes
Modes == {"audit", "verified"}
NoMode == "None"

is_eligible_for_certificate(mode) == mode # "audit"

\* ------------------------------------------------------------------ state
VARIABLES
    waffle,      \* the auto_certificate_generation switch
    selfGen,     \* CertificateGenerationCourseSetting: course -> self generation enabled
    allowlist,   \* CertificateAllowlist: (user, course) -> row has allowlist = True
    enrollment,  \* CourseEnrollment: (user, course) -> mode of the active enrollment, or NoMode
    certs,       \* GeneratedCertificate: partial map (user, course) -> [status, mode, grade]
    tasks,       \* the tasks handed to the task queue by the handler dispatched last
    last,        \* the signal dispatched last
    course,      \* the CourseOverview handed to the certificates API
    certificate, \* the certificate handed to the certificates API
    now,         \* datetime.now(UTC)
    result       \* the certificates API call made last, with the value it returned

signalVars == <<selfGen, allowlist, enrollment, certs, tasks, last>>
apiVars == <<course, certificate, now, result>>
vars == <<waffle, selfGen, allowlist, enrollment, certs, tasks, last, course, certificate, now, result>>

\* --------------------------------------------------------------- helpers
auto_certificate_generation_enabled == waffle

is_on_certificate_allowlist(user, course_id) == allowlist[<<user, course_id>>]

HasCert(user, course_id) == <<user, course_id>> \in DOMAIN certs

certificate_for_student(user, course_id) == certs[<<user, course_id>>]

enrollment_mode_for_user(user, course_id) == enrollment[<<user, course_id>>]

enrollments_for_user(user) == {c \in Courses : enrollment[<<user, c>>] # NoMode}

generate_certificate_task(user, course_key) ==
    [task |-> "generate_certificate_task", user |-> user, course |-> course_key]

generate_allowlist_certificate_task(user, course_key) ==
    [task |-> "generate_allowlist_certificate_task", user |-> user, course |-> course_key]

mark_notpassing(cert, mode, grade) ==
    [cert EXCEPT !.status = "notpassing", !.mode = mode, !.grade = grade]

\* All the orders in which the elements of S can be listed, each once.
RECURSIVE Listings(_)
Listings(S) ==
    IF S = {} THEN {<<>>}
    ELSE UNION {{<<x>> \o l : l \in Listings(S \ {x})} : x \in S}

Signal(name, user, course_id, arg) ==
    [signal |-> name, user |-> user, course |-> course_id, arg |-> arg]

\* ------------------------------------------------------ certificates API
CertificatesDisplayBehaviors == {"end", "end_with_date", "early_no_info"}

CourseOverviews ==
    [self_paced : BOOLEAN,
     certificate_available_date : Dates \cup {NoDate},
     certificates_display_behavior : CertificatesDisplayBehaviors]

_enabled_and_instructor_paced(c) ==
    auto_certificate_generation_enabled /\ ~c.self_paced

\* Mutant: the pacing is not looked at.
CanShowDateFieldIgnoresPacing(c) == auto_certificate_generation_enabled

can_show_certificate_available_date_field(c) == _enabled_and_instructor_paced(c)

_course_uses_available_date(c) ==
    /\ can_show_certificate_available_date_field(c)
    /\ c.certificate_available_date # NoDate
    /\ c.certificates_display_behavior = "end_with_date"

available_date_for_certificate(c, cert) ==
    IF _course_uses_available_date(c)
    THEN c.certificate_available_date
    ELSE cert.modified_date

\* Mutant: a future available date is displayed too.
DisplayDateIgnoresNow(c, cert) ==
    IF _course_uses_available_date(c)
    THEN c.certificate_available_date
    ELSE cert.modified_date

display_date_for_certificate(c, cert) ==
    IF _course_uses_available_date(c) /\ c.certificate_available_date < now
    THEN c.certificate_available_date
    ELSE cert.modified_date

MessageInputs ==
    [certificates_enabled_for_course : BOOLEAN,
     has_active_enrollment : BOOLEAN,
     certificates_viewable_for_course : BOOLEAN,
     has_passed_or_is_allowlisted : BOOLEAN,
     is_beta_tester : BOOLEAN]

\* Mutant: beta testers are not excluded.
CanShowMessageToBetaTesters(inputs) ==
    /\ auto_certificate_generation_enabled \/ inputs.certificates_enabled_for_course
    /\ inputs.has_active_enrollment
    /\ inputs.certificates_viewable_for_course
    /\ inputs.has_passed_or_is_allowlisted

can_show_certificate_message(inputs) ==
    /\ auto_certificate_generation_enabled \/ inputs.certificates_enabled_for_course
    /\ inputs.has_active_enrollment
    /\ inputs.certificates_viewable_for_course
    /\ inputs.has_passed_or_is_allowlisted
    /\ ~inputs.is_beta_tester

Result(fn, args, value) == [fn |-> fn, args |-> args, value |-> value]
NoResult == Result("none", <<>>, FALSE)

\* ------------------------------------------------------------------- Init
InitCert == [status : ALL_STATUSES, mode : {"honor"}, grade : {MaxPercent}]

Init ==
    /\ waffle \in BOOLEAN
    /\ selfGen = [c \in Courses |-> FALSE]
    /\ allowlist \in [Pairs -> BOOLEAN]
    /\ enrollment \in [Pairs -> Modes \cup {NoMode}]
    /\ certs \in UNION {[D -> InitCert] : D \in SUBSET Pairs}
    /\ tasks = <<>>
    /\ last = Signal("none", NoOne, NoOne, NoOne)
    /\ course = [self_paced |-> FALSE, certificate_available_date |-> NoDate,
                 certificates_display_behavior |-> "end"]
    /\ certificate = [modified_date |-> 0]
    /\ now = 0
    /\ result = NoResult

InitApi ==
    /\ waffle \in BOOLEAN
    /\ selfGen = [c \in Courses |-> FALSE]
    /\ allowlist = [p \in Pairs |-> FALSE]
    /\ enrollment = [p \in Pairs |-> NoMode]
    /\ certs = <<>>
    /\ tasks = <<>>
    /\ last = Signal("none", NoOne, NoOne, NoOne)
    /\ course \in CourseOverviews
    /\ certificate \in [modified_date : Dates]
    /\ now \in certificate.modified_date..MaxDate
    /\ result = NoResult

\* ---------------------------------------------------------------- actions
SetWaffleSwitch(active) ==
    /\ waffle' = active
    /\ tasks' = <<>>
    /\ last' = Signal("override_waffle_switch", NoOne, NoOne, active)
    /\ result' = NoResult
    /\ UNCHANGED <<selfGen, allowlist, enrollment, certs, course, certificate, now>>

\* Mutant: the setting is toggled against the pacing.
PacingChangeInverted(course_id, self_paced) ==
    /\ selfGen' = [selfGen EXCEPT ![course_id] = ~self_paced]
    /\ tasks' = <<>>
    /\ last' = Signal("COURSE_PACING_CHANGED", NoOne, course_id, self_paced)
    /\ UNCHANGED <<waffle, allowlist, enrollment, certs>>
    /\ UNCHANGED apiVars

_update_cert_settings_on_pacing_change(course_id, self_paced) ==
    /\ selfGen' = [selfGen EXCEPT ![course_id] = self_paced]
    /\ tasks' = <<>>
    /\ last' = Signal("COURSE_PACING_CHANGED", NoOne, course_id, self_paced)
    /\ UNCHANGED <<waffle, allowlist, enrollment, certs>>
    /\ UNCHANGED apiVars

_listen_for_certificate_allowlist_append(user, course_id, row_allowlist) ==
    /\ allowlist' = [allowlist EXCEPT ![<<user, course_id>>] = row_allowlist]
    /\ IF ~auto_certificate_generation_enabled
       THEN tasks' = <<>>
       ELSE IF allowlist'[<<user, course_id>>]
            THEN tasks' = <<generate_allowlist_certificate_task(user, course_id)>>
            ELSE tasks' = <<>>
    /\ last' = Signal("post_save", user, course_id, row_allowlist)
    /\ UNCHANGED <<waffle, selfGen, enrollment, certs>>
    /\ UNCHANGED apiVars

\* Mutant: the existing certificate is not looked at.
PassingGradeIgnoresCertificate(user, course_id) ==
    /\ IF ~auto_certificate_generation_enabled
       THEN tasks' = <<>>
       ELSE tasks' = <<generate_certificate_task(user, course_id)>>
    /\ last' = Signal("COURSE_GRADE_NOW_PASSED", user, course_id, NoOne)
    /\ UNCHANGED <<waffle, selfGen, allowlist, enrollment, certs>>
    /\ UNCHANGED apiVars

listen_for_passing_grade(user, course_id) ==
    /\ IF ~auto_certificate_generation_enabled
       THEN tasks' = <<>>
       ELSE IF HasCert(user, course_id)
               /\ is_passing_status(certificate_for_student(user, course_id).status)
            THEN tasks' = <<>>
            ELSE tasks' = <<generate_certificate_task(user, course_id)>>
    /\ last' = Signal("COURSE_GRADE_NOW_PASSED", user, course_id, NoOne)
    /\ UNCHANGED <<waffle, selfGen, allowlist, enrollment, certs>>
    /\ UNCHANGED apiVars

\* Mutant: the allowlist is not consulted.
FailingGradeIgnoresAllowlist(user, course_id, percent) ==
    /\ IF HasCert(user, course_id)
          /\ is_passing_status(certificate_for_student(user, course_id).status)
       THEN certs' = [certs EXCEPT ![<<user, course_id>>] =
                         mark_notpassing(@, enrollment_mode_for_user(user, course_id), percent)]
       ELSE certs' = certs
    /\ tasks' = <<>>
    /\ last' = Signal("COURSE_GRADE_NOW_FAILED", user, course_id, percent)
    /\ UNCHANGED <<waffle, selfGen, allowlist, enrollment>>
    /\ UNCHANGED apiVars

\* Mutant: the certificate is given a status outside the enumeration.
FailingGradeWritesUnknownStatus(user, course_id, percent) ==
    /\ IF is_on_certificate_allowlist(user, course_id)
       THEN certs' = certs
       ELSE IF HasCert(user, course_id)
               /\ is_passing_status(certificate_for_student(user, course_id).status)
            THEN certs' = [certs EXCEPT ![<<user, course_id>>] =
                              [mark_notpassing(@, enrollment_mode_for_user(user, course_id), percent)
                                  EXCEPT !.status = "not_passing"]]
            ELSE certs' = certs
    /\ tasks' = <<>>
    /\ last' = Signal("COURSE_GRADE_NOW_FAILED", user, course_id, percent)
    /\ UNCHANGED <<waffle, selfGen, allowlist, enrollment>>
    /\ UNCHANGED apiVars

\* Mutant: every existing certificate is marked, passing or not.
FailingGradeMarksAnyCertificate(user, course_id, percent) ==
    /\ IF is_on_certificate_allowlist(user, course_id)
       THEN certs' = certs
       ELSE IF HasCert(user, course_id)
            THEN certs' = [certs EXCEPT ![<<user, course_id>>] =
                              mark_notpassing(@, enrollment_mode_for_user(user, course_id), percent)]
            ELSE certs' = certs
    /\ tasks' = <<>>
    /\ last' = Signal("COURSE_GRADE_NOW_FAILED", user, course_id, percent)
    /\ UNCHANGED <<waffle, selfGen, allowlist, enrollment>>
    /\ UNCHANGED apiVars

_listen_for_failing_grade(user, course_id, percent) ==
    /\ IF is_on_certificate_allowlist(user, course_id)
       THEN certs' = certs
       ELSE IF HasCert(user, course_id)
               /\ is_passing_status(certificate_for_student(user, course_id).status)
            THEN certs' = [certs EXCEPT ![<<user, course_id>>] =
                              mark_notpassing(@, enrollment_mode_for_user(user, course_id), percent)]
            ELSE certs' = certs
    /\ tasks' = <<>>
    /\ last' = Signal("COURSE_GRADE_NOW_FAILED", user, course_id, percent)
    /\ UNCHANGED <<waffle, selfGen, allowlist, enrollment>>
    /\ UNCHANGED apiVars

\* Mutant: the switch is not checked.
IdVerificationIgnoresSwitch(user) ==
    /\ \E order \in Listings(enrollments_for_user(user)) :
          tasks' = [i \in 1..Len(order) |-> generate_certificate_task(user, order[i])]
    /\ last' = Signal("LEARNER_NOW_VERIFIED", user, NoOne, NoOne)
    /\ UNCHANGED <<waffle, selfGen, allowlist, enrollment, certs>>
    /\ UNCHANGED apiVars

_listen_for_id_verification_status_changed(user) ==
    /\ IF ~auto_certificate_generation_enabled
       THEN tasks' = <<>>
       ELSE \E order \in Listings(enrollments_for_user(user)) :
               tasks' = [i \in 1..Len(order) |-> generate_certificate_task(user, order[i])]
    /\ last' = Signal("LEARNER_NOW_VERIFIED", user, NoOne, NoOne)
    /\ UNCHANGED <<waffle, selfGen, allowlist, enrollment, certs>>
    /\ UNCHANGED apiVars

\* Mutant: the handler returns early while the switch is off, as the others do.
EnrollmentModeChangeChecksSwitch(user, course_key, mode) ==
    /\ IF auto_certificate_generation_enabled /\ is_eligible_for_certificate(mode)
       THEN tasks' = <<generate_certificate_task(user, course_key)>>
       ELSE tasks' = <<>>
    /\ last' = Signal("ENROLLMENT_TRACK_UPDATED", user, course_key, mode)
    /\ UNCHANGED <<waffle, selfGen, allowlist, enrollment, certs>>
    /\ UNCHANGED apiVars

_listen_for_enrollment_mode_change(user, course_key, mode) ==
    /\ IF is_eligible_for_certificate(mode)
       THEN tasks' = <<generate_certificate_task(user, course_key)>>
       ELSE tasks' = <<>>
    /\ last' = Signal("ENROLLMENT_TRACK_UPDATED", user, course_key, mode)
    /\ UNCHANGED <<waffle, selfGen, allowlist, enrollment, certs>>
    /\ UNCHANGED apiVars

Next ==
    \/ \E active \in BOOLEAN : SetWaffleSwitch(active)
    \/ \E c \in Courses, sp \in BOOLEAN : _update_cert_settings_on_pacing_change(c, sp)
    \/ \E u \in Users, c \in Courses, b \in BOOLEAN : _listen_for_certificate_allowlist_append(u, c, b)
    \/ \E u \in Users, c \in Courses : listen_for_passing_grade(u, c)
    \/ \E u \in Users, c \in Courses, p \in Percents : _listen_for_failing_grade(u, c, p)
    \/ \E u \in Users : _listen_for_id_verification_status_changed(u)
    \/ \E u \in Users, c \in Courses, m \in Modes : _listen_for_enrollment_mode_change(u, c, m)

Spec == Init /\ [][Next]_vars

\* -------------------------------------------------- certificates API calls
SetCourseOverview(c) ==
    /\ course' = c
    /\ result' = NoResult
    /\ UNCHANGED <<waffle, certificate, now>>
    /\ UNCHANGED signalVars

CallCanShowCertificateAvailableDateField ==
    /\ result' = Result("can_show_certificate_available_date_field", <<>>,
                        can_show_certificate_available_date_field(course))
    /\ UNCHANGED <<waffle, course, certificate, now>>
    /\ UNCHANGED signalVars

CallAvailableDateForCertificate ==
    /\ result' = Result("available_date_for_certificate", <<>>,
                        available_date_for_certificate(course, certificate))
    /\ UNCHANGED <<waffle, course, certificate, now>>
    /\ UNCHANGED signalVars

CallDisplayDateForCertificate ==
    /\ result' = Result("display_date_for_certificate", <<>>,
                        display_date_for_certificate(course, certificate))
    /\ UNCHANGED <<waffle, course, certificate, now>>
    /\ UNCHANGED signalVars

CallCanShowCertificateMessage(inputs) ==
    /\ result' = Result("can_show_certificate_message", inputs, can_show_certificate_message(inputs))
    /\ UNCHANGED <<waffle, course, certificate, now>>
    /\ UNCHANGED signalVars

NextApi ==
    \/ \E active \in BOOLEAN : SetWaffleSwitch(active)
    \/ \E c \in CourseOverviews : SetCourseOverview(c)
    \/ CallCanShowCertificateAvailableDateField
    \/ CallAvailableDateForCertificate
    \/ CallDisplayDateForCertificate
    \/ \E inputs \in MessageInputs : CallCanShowCertificateMessage(inputs)

SpecApi == InitApi /\ [][NextApi]_vars

\* ================================================================= claims
LastIs(name) == last.signal = name
NextIs(name) == last'.signal = name
AlreadyPassing(user, course_id) ==
    HasCert(user, course_id) /\ is_passing_status(certs[<<user, course_id>>].status)

\* C1: a grade-now-passed event enqueues one generate_certificate_task for its
\* (user, course) exactly when the switch is on and the user holds no certificate
\* of a passing status for the course; otherwise nothing is enqueued; in every
\* case no certificate is changed.
C1_PassingGradeEnqueuesIff ==
    [][NextIs("COURSE_GRADE_NOW_PASSED") =>
          LET u == last'.user
              c == last'.course
          IN /\ certs' = certs
             /\ IF waffle /\ ~AlreadyPassing(u, c)
                THEN tasks' = <<generate_certificate_task(u, c)>>
                ELSE tasks' = <<>>]_vars

\* C1 witness: the switch is on, the learner holds a notpassing certificate,
\* and the passing grade enqueued the task.
C1_Witness ==
    /\ LastIs("COURSE_GRADE_NOW_PASSED")
    /\ waffle
    /\ HasCert(last.user, last.course)
    /\ certs[<<last.user, last.course>>].status = "notpassing"
    /\ tasks = <<generate_certificate_task(last.user, last.course)>>

\* C2: a grade-now-failed event for an allowlisted (user, course) leaves every
\* certificate as it was (status, mode and grade), whatever its status.
C2_AllowlistedFailingGradeChangesNothing ==
    [][NextIs("COURSE_GRADE_NOW_FAILED") /\ allowlist[<<last'.user, last'.course>>]
          => certs' = certs]_vars

\* C2 witness: a failing grade arrived for an allowlisted learner whose
\* certificate is, and stays, downloadable.
C2_Witness ==
    /\ LastIs("COURSE_GRADE_NOW_FAILED")
    /\ allowlist[<<last.user, last.course>>]
    /\ HasCert(last.user, last.course)
    /\ certs[<<last.user, last.course>>].status = "downloadable"

\* C3: the status of every certificate record is one of the 14 values of
\* ALL_STATUSES, after any sequence of the six signals.
C3_StatusInEnumeration ==
    /\ Cardinality(ALL_STATUSES) = 14
    /\ \A p \in DOMAIN certs : certs[p].status \in ALL_STATUSES

\* C3 witness: a handler has written a certificate's status.
C3_Witness ==
    /\ LastIs("COURSE_GRADE_NOW_FAILED")
    /\ HasCert(last.user, last.course)
    /\ certs[<<last.user, last.course>>].status = "notpassing"
    /\ certs[<<last.user, last.course>>].mode \in Modes \cup {NoMode}

\* C7: a grade-now-failed event for a (user, course) not on the allowlist marks
\* the certificate notpassing, with the enrollment mode and the grade's percent,
\* exactly when the certificate exists and has a passing status; otherwise
\* nothing changes. The switch plays no part.
C7_FailingGradeMarksPassingCertificate ==
    [][NextIs("COURSE_GRADE_NOW_FAILED") /\ ~allowlist[<<last'.user, last'.course>>] =>
          LET u == last'.user
              c == last'.course
          IN IF AlreadyPassing(u, c)
             THEN /\ DOMAIN certs' = DOMAIN certs
                  /\ certs'[<<u, c>>] =
                        [status |-> "notpassing", mode |-> enrollment[<<u, c>>], grade |-> last'.arg]
                  /\ \A p \in DOMAIN certs \ {<<u, c>>} : certs'[p] = certs[p]
             ELSE certs' = certs]_vars

\* C7 witness: with the switch off, a failing grade moved a certificate to
\* notpassing with the enrollment mode and the grade's percent.
C7_Witness ==
    /\ LastIs("COURSE_GRADE_NOW_FAILED")
    /\ ~waffle
    /\ ~allowlist[<<last.user, last.course>>]
    /\ HasCert(last.user, last.course)
    /\ certs[<<last.user, last.course>>] =
          [status |-> "notpassing", mode |-> enrollment[<<last.user, last.course>>],
           grade |-> last.arg]
    /\ last.arg < MaxPercent

\* C8: with the switch off, the allowlist-row-saved and learner-now-verified
\* handlers enqueue nothing and change nothing; with it on, a saved row enqueues
\* an allowlist task exactly when its (user, course) is on the allowlist, and
\* learner-now-verified enqueues one generation task per enrollment of the user.
C8_SwitchGatesAllowlistAndVerification ==
    [][/\ NextIs("post_save") =>
             LET u == last'.user
                 c == last'.course
             IN /\ UNCHANGED <<waffle, selfGen, enrollment, certs>>
                /\ IF waffle /\ allowlist'[<<u, c>>]
                   THEN tasks' = <<generate_allowlist_certificate_task(u, c)>>
                   ELSE tasks' = <<>>
       /\ NextIs("LEARNER_NOW_VERIFIED") =>
             LET u == last'.user
             IN /\ UNCHANGED <<waffle, selfGen, allowlist, enrollment, certs>>
                /\ IF waffle
                   THEN /\ Len(tasks') = Cardinality(enrollments_for_user(u))
                        /\ \A c \in enrollments_for_user(u) :
                              \E i \in 1..Len(tasks') :
                                 tasks'[i] = generate_certificate_task(u, c)
                   ELSE tasks' = <<>>]_vars

\* C8 witness: with the switch on, a verified learner enrolled in two courses
\* got one task for each.
C8_Witness ==
    /\ LastIs("LEARNER_NOW_VERIFIED")
    /\ waffle
    /\ Cardinality(enrollments_for_user(last.user)) = 2
    /\ Len(tasks) = 2
    /\ tasks[1] # tasks[2]

\* C9: an enrollment-track-updated event enqueues a generation task exactly when
\* the new mode is eligible for a certificate, whatever the switch, and changes
\* no certificate.
C9_ModeChangeEnqueuesIffEligible ==
    [][NextIs("ENROLLMENT_TRACK_UPDATED") =>
          /\ certs' = certs
          /\ IF last'.arg # "audit"
             THEN tasks' = <<generate_certificate_task(last'.user, last'.course)>>
             ELSE tasks' = <<>>]_vars

\* C9 witness: with the switch off, a move to the verified track enqueued a
\* task while the learner's downloadable certificate stayed as it was.
C9_Witness ==
    /\ LastIs("ENROLLMENT_TRACK_UPDATED")
    /\ ~waffle
    /\ last.arg = "verified"
    /\ tasks = <<generate_certificate_task(last.user, last.course)>>
    /\ HasCert(last.user, last.course)
    /\ certs[<<last.user, last.course>>].status = "downloadable"

\* C10: a pacing-changed event sets the self-generation setting of its course
\* to the self_paced flag it carries and leaves the other courses' settings;
\* no other signal changes a setting.
C10_SettingFollowsPacing ==
    [][/\ NextIs("COURSE_PACING_CHANGED") =>
             /\ selfGen'[last'.course] = last'.arg
             /\ \A d \in Courses \ {last'.course} : selfGen'[d] = selfGen[d]
       /\ ~NextIs("COURSE_PACING_CHANGED") => selfGen' = selfGen]_vars

\* C10 witness: one course was made instructor-paced after another had been
\* made self-paced, and the other's setting is still enabled.
C10_Witness ==
    /\ LastIs("COURSE_PACING_CHANGED")
    /\ last.arg = FALSE
    /\ ~selfGen[last.course]
    /\ \E d \in Courses \ {last.course} : selfGen[d]

\* C4: can_show_certificate_available_date_field(course) is True exactly when
\* the switch is on and the course is instructor-paced.
C4_CanShowDateField ==
    result.fn = "can_show_certificate_available_date_field" =>
        result.value = (waffle /\ ~course.self_paced)

\* C4 witness: the call returned True.
C4_Witness ==
    /\ result.fn = "can_show_certificate_available_date_field"
    /\ result.value = TRUE

\* C5: with no available date both functions return modified_date; with one
\* set and END_WITH_DATE, available_date_for_certificate returns it exactly when
\* the switch is on and the course instructor-paced, and
\* display_date_for_certificate returns it only when it is also in the past.
C5_AvailableVsDisplayDate ==
    LET avail == course.certificate_available_date
        uses == waffle /\ ~course.self_paced
    IN /\ result.fn \in {"available_date_for_certificate", "display_date_for_certificate"}
          /\ avail = NoDate
          => result.value = certificate.modified_date
       /\ result.fn = "available_date_for_certificate"
          /\ avail # NoDate /\ course.certificates_display_behavior = "end_with_date"
          => result.value = IF uses THEN avail ELSE certificate.modified_date
       /\ result.fn = "display_date_for_certificate"
          /\ avail # NoDate /\ course.certificates_display_behavior = "end_with_date"
          /\ avail < now
          => result.value = IF uses THEN avail ELSE certificate.modified_date
       /\ result.fn = "display_date_for_certificate"
          /\ avail # NoDate /\ course.certificates_display_behavior = "end_with_date"
          /\ avail > now
          => result.value = certificate.modified_date

\* C5 witness: the available date is used, lies in the future and differs from
\* modified_date, and display_date_for_certificate returned modified_date.
C5_Witness ==
    /\ result.fn = "display_date_for_certificate"
    /\ waffle /\ ~course.self_paced
    /\ course.certificates_display_behavior = "end_with_date"
    /\ course.certificate_available_date > now
    /\ result.value = certificate.modified_date
    /\ result.value # course.certificate_available_date

====
